---- MODULE Spec2Model ----
(***************************************************************************)
(* A model of psync: the rolling checksum (src/rollsum.rs), the chunkers   *)
(* (src/chunkers.rs), the control file parser and its indexes              *)
(* (src/controlfile.rs) and the search over a seed (src/search.rs).        *)
(*                                                                         *)
(* Scaling.  The window of the rolling checksum is WINDOW_SIZE = 4096      *)
(* bytes in the source.  The model keeps every formula of the source in    *)
(* terms of WINDOW_SIZE and sets WINDOW_SIZE to WindowScale bytes, so that *)
(* files a few bytes long exercise the full window, the not-yet-full       *)
(* window and the end-of-file cases.  Bytes are drawn from the set Bytes.  *)
(*                                                                         *)
(* u64.  A u64 is a tuple of four 16-bit limbs, least significant first,   *)
(* with wrapping addition and subtraction: the arithmetic is exactly that  *)
(* of the source, modulo 2^64.                                             *)
(*                                                                         *)
(* usize.  A usize is an integer modulo 2^64 held as the residue nearest  *)
(* 0, so that the greatest usize and the sums that overflow are part of    *)
(* the model; an overflow panics in a build that checks it and wraps in a  *)
(* build that does not.                                                    *)
(*                                                                         *)
(* SHA-256 is modelled as a collision-free function: the digest of a byte  *)
(* string is the tagged byte string itself.                                *)
(***************************************************************************)
EXTENDS Integers, Sequences, FiniteSets, TLC

\* ------------------------------------------------------------------ bounds
WindowScale == 2
MaxSeed == 4
MaxTarget == 3
MaxSize == 3
MaxLines == 2
Bytes == {0, 1}

\* --------------------------------------------------------------- constants
WINDOW_SIZE == WindowScale
CHAR_OFFSET == 63
HASH_LEN == 32

VARIABLES
  \* search (src/search.rs)
  file,             \* the seed, a sequence of bytes
  control_file,     \* the parsed ControlFile: [chunks, appearances]
  n_bytes,          \* the index of the next seed byte of the scan
  hasher,           \* the RollSum of the scan
  our_appearances,  \* the result map: hash -> seed offset
  pc,               \* "scan", "done" (Ok returned), "panic", or "idle"
  \* chunkers (src/chunkers.rs)
  c_file,           \* the file being chunked
  c_req,            \* the request: <<"specific", from, len>> or <<"uniform", size>>
  c_hasher,         \* chunk_uniform's RollSum
  c_i,              \* chunk_uniform's position in the file
  c_out,            \* the descriptors emitted so far
  c_pc,             \* "idle", "uniform", "done", "error", "panic"
  \* ControlFile::read (src/controlfile.rs)
  lines,            \* the lines of the control file
  r_pos,            \* the number of lines consumed
  r_cf,             \* [total_len, total_sha256, chunks, appearances] being built
  r_pc              \* "header", "chunks", "ok", "err", "panic", or "idle"

search_vars == <<file, control_file, n_bytes, hasher, our_appearances, pc>>
chunk_vars == <<c_file, c_req, c_hasher, c_i, c_out, c_pc>>
read_vars == <<lines, r_pos, r_cf, r_pc>>
vars == <<search_vars, chunk_vars, read_vars>>

\* ----------------------------------------------------------------- helpers
Min(a, b) == IF a <= b THEN a ELSE b

\* All sequences over S of a length in lo..hi.
SeqsOf(S, lo, hi) == UNION {[1..n -> S] : n \in lo..hi}

\* file[from..to] of the source: the bytes at the 0-based indexes from..to-1.
Slice(s, from, to) == SubSeq(s, from + 1, to)

\* An empty HashMap.
EmptyMap == [k \in {} |-> 0]

\* --------------------------------------------------------------------- u64
Limb == 2^16

\* The u64 of a natural number below 2^31.
U64(n) == <<n % Limb, (n \div Limb) % Limb, 0, 0>>

wrapping_add(a, b) ==
  LET t1 == a[1] + b[1]
      t2 == a[2] + b[2] + (t1 \div Limb)
      t3 == a[3] + b[3] + (t2 \div Limb)
      t4 == a[4] + b[4] + (t3 \div Limb)
  IN <<t1 % Limb, t2 % Limb, t3 % Limb, t4 % Limb>>

wrapping_sub(a, b) ==
  LET t1 == Limb + a[1] - b[1]
      t2 == Limb + a[2] - b[2] - (IF t1 < Limb THEN 1 ELSE 0)
      t3 == Limb + a[3] - b[3] - (IF t2 < Limb THEN 1 ELSE 0)
      t4 == Limb + a[4] - b[4] - (IF t3 < Limb THEN 1 ELSE 0)
  IN <<t1 % Limb, t2 % Limb, t3 % Limb, t4 % Limb>>

\* ----------------------------------------------------------------- RollSum
RollSum_default ==
  [s1 |-> U64(WINDOW_SIZE * CHAR_OFFSET),
   s2 |-> U64(WINDOW_SIZE * (WINDOW_SIZE - 1) * CHAR_OFFSET),
   offset |-> 0,
   window |-> [k \in 1..WINDOW_SIZE |-> 0]]

\* A slip of input: the byte leaving the window is not taken out of s1.
input_keeps_out_val(rs, in_val) ==
  LET out_val == rs.window[rs.offset + 1]
      s1 == wrapping_add(rs.s1, U64(in_val))
      s2 == wrapping_sub(wrapping_add(rs.s2, s1),
                         U64(WINDOW_SIZE * (out_val + CHAR_OFFSET)))
  IN [s1 |-> s1,
      s2 |-> s2,
      window |-> [rs.window EXCEPT ![rs.offset + 1] = in_val],
      offset |-> IF rs.offset + 1 >= WINDOW_SIZE THEN 0 ELSE rs.offset + 1]

input(rs, in_val) ==
  LET out_val == rs.window[rs.offset + 1]
      s1 == wrapping_sub(wrapping_add(rs.s1, U64(in_val)), U64(out_val))
      s2 == wrapping_sub(wrapping_add(rs.s2, s1),
                         U64(WINDOW_SIZE * (out_val + CHAR_OFFSET)))
  IN [s1 |-> s1,
      s2 |-> s2,
      window |-> [rs.window EXCEPT ![rs.offset + 1] = in_val],
      offset |-> IF rs.offset + 1 >= WINDOW_SIZE THEN 0 ELSE rs.offset + 1]

\* (s1 << 32) | (s2 & 0xffff_ffff): the low 32 bits of s1 above those of s2.
sum(rs) == <<rs.s2[1], rs.s2[2], rs.s1[1], rs.s1[2]>>

\* A default RollSum fed the bytes of s in order.
RECURSIVE FeedAll(_, _)
FeedAll(rs, s) == IF s = <<>> THEN rs ELSE FeedAll(input(rs, Head(s)), Tail(s))

\* ----------------------------------------------------------------- SHA-256
Sha256(bytes) == <<"sha256", bytes>>

\* -------------------------------------------------------------- Appearance
\* The outcome of an operation that panics: an arithmetic overflow check (a
\* debug build) or, with the wrapped value (a release build), the slice
\* bound check that follows it. Both builds end in a panic.
Panicked == [panic |-> TRUE]
Returned(ap) == [panic |-> FALSE, ap |-> ap]

Appearance(from, len, start_mark, hash) ==
  [from |-> from, len |-> len, start_mark |-> start_mark, hash |-> hash]

\* ------------------------------------------------------------------- usize
\* A usize is an integer modulo 2^64, held as the residue nearest 0: a
\* negative number n stands for 2^64 + n, so USIZE_MAX is -1. Wrapping
\* addition and subtraction are then + and -, the order is the unsigned one,
\* and an operation overflows when its exact result leaves 0..2^64-1.
USIZE_MAX == -1

UsizeLt(a, b) == IF (a < 0) = (b < 0) THEN a < b ELSE b < 0
UsizeLe(a, b) == a = b \/ UsizeLt(a, b)

AddOverflows(a, b) == (a < 0 /\ b < 0) \/ ((a < 0 \/ b < 0) /\ a + b >= 0)
SubOverflows(a, b) == UsizeLt(a, b)

\* The slice f[a..b] is within the file: a <= b <= f.len().
SliceInRange(f, a, b) == UsizeLe(a, b) /\ UsizeLe(b, Len(f))

\* ---------------------------------------------------------------- chunkers
\* A slip of chunk_specific: the expansion of a short chunk is left out.
chunk_specific_no_expand(f, from0, len0, checks) ==
  LET shift == UsizeLe(Len(f), from0 + WINDOW_SIZE)
      from == IF shift THEN Len(f) - WINDOW_SIZE ELSE from0
      len1 == IF shift THEN WINDOW_SIZE ELSE len0
      cut == UsizeLt(Len(f), from + len1)
      len == IF cut THEN Len(f) - from ELSE len1
      overflow == \/ AddOverflows(from0, WINDOW_SIZE)
                  \/ shift /\ SubOverflows(Len(f), WINDOW_SIZE)
                  \/ AddOverflows(from, len1)
                  \/ cut /\ SubOverflows(Len(f), from)
                  \/ AddOverflows(from, WINDOW_SIZE)
                  \/ AddOverflows(from, len)
  IN IF \/ checks /\ overflow
        \/ ~SliceInRange(f, from, from + WINDOW_SIZE)
        \/ ~SliceInRange(f, from, from + len)
     THEN Panicked
     ELSE Returned(Appearance(
            from, len,
            sum(FeedAll(RollSum_default, Slice(f, from, from + WINDOW_SIZE))),
            Sha256(Slice(f, from, from + len))))

\* chunk_specific(file, from, len), and Appearance::new, which is the same
\* code. checks says whether the build checks arithmetic overflow (a debug
\* build: the first operation that overflows panics) or wraps (a release
\* build: the wrapped values go on, to the bound checks of the two slices).
chunk_specific(f, from0, len0, checks) ==
  LET shift == UsizeLe(Len(f), from0 + WINDOW_SIZE)
      from == IF shift THEN Len(f) - WINDOW_SIZE ELSE from0
      len1 == IF shift THEN WINDOW_SIZE ELSE len0
      cut == UsizeLt(Len(f), from + len1)
      len2 == IF cut THEN Len(f) - from ELSE len1
      len == IF UsizeLt(len2, WINDOW_SIZE) THEN WINDOW_SIZE ELSE len2
      overflow == \/ AddOverflows(from0, WINDOW_SIZE)
                  \/ shift /\ SubOverflows(Len(f), WINDOW_SIZE)
                  \/ AddOverflows(from, len1)
                  \/ cut /\ SubOverflows(Len(f), from)
                  \/ AddOverflows(from, WINDOW_SIZE)
                  \/ AddOverflows(from, len)
  IN IF \/ checks /\ overflow
        \/ ~SliceInRange(f, from, from + WINDOW_SIZE)
        \/ ~SliceInRange(f, from, from + len)
     THEN Panicked
     ELSE Returned(Appearance(
            from, len,
            sum(FeedAll(RollSum_default, Slice(f, from, from + WINDOW_SIZE))),
            Sha256(Slice(f, from, from + len))))

\* The body of chunk_uniform's closure after hasher.input(x), at index i:
\* the descriptors it yields (none or one). rs is the hasher after the input.
uniform_item(f, size, rs, i) ==
  IF i + 1 >= WINDOW_SIZE /\ (i + 1 - WINDOW_SIZE) % size = 0
  THEN LET from == i + 1 - WINDOW_SIZE
           to == Min(Len(f), from + size)
       IN <<Appearance(from, size, sum(rs), Sha256(Slice(f, from, to)))>>
  ELSE <<>>

\* The items of chunk_uniform's iterator from index i on.
RECURSIVE uniform_items(_, _, _, _)
uniform_items(f, size, rs, i) ==
  IF i >= Len(f)
  THEN <<>>
  ELSE LET rs2 == input(rs, f[i + 1])
       IN uniform_item(f, size, rs2, i) \o uniform_items(f, size, rs2, i + 1)

\* ------------------------------------------------------------- ControlFile
EmptyControlFile(total_len, total_sha256) ==
  [total_len |-> total_len, total_sha256 |-> total_sha256,
   chunks |-> EmptyMap, appearances |-> EmptyMap]

\* A slip of the indexing: every line is pushed to chunks, also one whose
\* hash is already known.
index_appearance_always_push(cf, ap) ==
  LET bucket == IF ap.start_mark \in DOMAIN cf.chunks
                THEN cf.chunks[ap.start_mark] ELSE <<>>
      chunks2 == [m \in DOMAIN cf.chunks \cup {ap.start_mark} |->
                    IF m = ap.start_mark
                    THEN Append(bucket, <<ap.len, ap.hash>>)
                    ELSE cf.chunks[m]]
      entry == IF ap.hash \in DOMAIN cf.appearances
               THEN cf.appearances[ap.hash] ELSE <<ap.len, <<>>>>
      appearances2 == [h \in DOMAIN cf.appearances \cup {ap.hash} |->
                         IF h = ap.hash
                         THEN <<entry[1], Append(entry[2], ap.from)>>
                         ELSE cf.appearances[h]]
  IN [cf EXCEPT !.chunks = chunks2, !.appearances = appearances2]

\* The body of read's loop over the chunk lines, for the parsed line ap.
index_appearance(cf, ap) ==
  LET vacant == ap.hash \notin DOMAIN cf.appearances
      bucket == IF ap.start_mark \in DOMAIN cf.chunks
                THEN cf.chunks[ap.start_mark] ELSE <<>>
      chunks2 == IF vacant
                 THEN [m \in DOMAIN cf.chunks \cup {ap.start_mark} |->
                         IF m = ap.start_mark
                         THEN Append(bucket, <<ap.len, ap.hash>>)
                         ELSE cf.chunks[m]]
                 ELSE cf.chunks
      entry == IF vacant THEN <<ap.len, <<>>>> ELSE cf.appearances[ap.hash]
      appearances2 == [h \in DOMAIN cf.appearances \cup {ap.hash} |->
                         IF h = ap.hash
                         THEN <<entry[1], Append(entry[2], ap.from)>>
                         ELSE cf.appearances[h]]
  IN [cf EXCEPT !.chunks = chunks2, !.appearances = appearances2]

\* read's loop over chunk lines that all parse, aps being the parsed lines.
RECURSIVE index_all(_, _)
index_all(cf, aps) ==
  IF aps = <<>> THEN cf ELSE index_all(index_appearance(cf, Head(aps)), Tail(aps))

RECURSIVE SumOver(_, _)
SumOver(f, S) ==
  IF S = {} THEN 0
  ELSE LET k == CHOOSE x \in S : TRUE IN f[k] + SumOver(f, S \ {k})

n_chunks(cf) ==
  SumOver([m \in DOMAIN cf.chunks |-> Len(cf.chunks[m])], DOMAIN cf.chunks)

n_appearances(cf) ==
  SumOver([h \in DOMAIN cf.appearances |-> Len(cf.appearances[h][2])],
          DOMAIN cf.appearances)

\* mk_filter builds a binary fuse filter over the keys of chunks. The filter
\* has no false negatives; fp says whether it answers yes for a key that is
\* not in it.
filter_contains(cf, hash, fp) == hash \in DOMAIN cf.chunks \/ fp

\* ------------------------------------------------------------------ search
\* A slip of the insertion: the first offset found is kept.
insert_keeps_first(apps, their_sha, our_start) ==
  [h \in DOMAIN apps \cup {their_sha} |->
     IF h \in DOMAIN apps THEN apps[h] ELSE our_start]

\* our_appearances.insert(*their_sha, our_start)
insert(apps, their_sha, our_start) ==
  [h \in DOMAIN apps \cup {their_sha} |->
     IF h = their_sha THEN our_start ELSE apps[h]]

\* The loop over the candidates of a bucket at the window start our_start.
RECURSIVE verify_bucket(_, _, _, _)
verify_bucket(apps, bucket, seed, our_start) ==
  IF bucket = <<>>
  THEN apps
  ELSE LET len == Head(bucket)[1]
           their_sha == Head(bucket)[2]
           end == Min(Len(seed), our_start + len)
           our_sha == Sha256(Slice(seed, our_start, end))
       IN verify_bucket(
            IF our_sha = their_sha THEN insert(apps, their_sha, our_start) ELSE apps,
            Tail(bucket), seed, our_start)

\* chunks.get(&hash).into_iter().flatten() behind filter.contains(&hash)
candidates(cf, hash, fp) ==
  IF filter_contains(cf, hash, fp) /\ hash \in DOMAIN cf.chunks
  THEN cf.chunks[hash] ELSE <<>>

\* One iteration of the loop over the seed that verifies its candidates.
SearchInput ==
  /\ pc = "scan"
  /\ n_bytes < Len(file)
  /\ \E fp \in BOOLEAN :
       LET rs == input(hasher, file[n_bytes + 1])
           bucket == candidates(control_file, sum(rs), fp)
       IN /\ bucket # <<>> => n_bytes + 1 >= WINDOW_SIZE
          /\ hasher' = rs
          /\ our_appearances' =
               IF bucket = <<>> THEN our_appearances
               ELSE verify_bucket(our_appearances, bucket, file,
                                  n_bytes + 1 - WINDOW_SIZE)
  /\ n_bytes' = n_bytes + 1
  /\ UNCHANGED <<file, control_file, pc, chunk_vars, read_vars>>

\* One iteration with a candidate while the window is not yet full:
\* n_bytes + 1 - WINDOW_SIZE underflows. A debug build panics on the
\* subtraction; a release build wraps and panics on file[our_start..end],
\* whose start is past its end.
SearchUnderflow ==
  /\ pc = "scan"
  /\ n_bytes < Len(file)
  /\ LET rs == input(hasher, file[n_bytes + 1])
     IN /\ candidates(control_file, sum(rs), FALSE) # <<>>
        /\ n_bytes + 1 < WINDOW_SIZE
        /\ hasher' = rs
  /\ pc' = "panic"
  /\ UNCHANGED <<file, control_file, n_bytes, our_appearances, chunk_vars, read_vars>>

\* The loop is over: Ok(our_appearances).
SearchReturn ==
  /\ pc = "scan"
  /\ n_bytes = Len(file)
  /\ pc' = "done"
  /\ UNCHANGED <<file, control_file, n_bytes, hasher, our_appearances,
                 chunk_vars, read_vars>>

\* ------------------------------------------------------ the search's inputs
Targets == SeqsOf(Bytes, 0, MaxTarget)
Seeds == SeqsOf(Bytes, 0, MaxSeed)

\* The descriptors chunk_specific gives for a file (chunk_tarball calls it
\* once per entry).
SpecificOf(t) ==
  {chunk_specific(t, r[1], r[2], r[3]).ap :
     r \in {r \in (0..MaxTarget) \X (0..MaxTarget) \X BOOLEAN :
              ~chunk_specific(t, r[1], r[2], r[3]).panic}}

\* The chunk lines a producer writes for the file t.
ProducedLines(t) ==
  {uniform_items(t, size, RollSum_default, 0) : size \in WINDOW_SIZE..MaxSize}
  \cup {<<a>> : a \in SpecificOf(t)}
  \cup {<<a, b>> : <<a, b>> \in SpecificOf(t) \X SpecificOf(t)}

\* The control files read gives for them.
ControlFiles ==
  UNION {{index_all(EmptyControlFile(Len(t), Sha256(t)), ls) : ls \in ProducedLines(t)} :
           t \in Targets}

ChunkIdle ==
  /\ c_file = <<>> /\ c_req = <<>> /\ c_hasher = RollSum_default
  /\ c_i = 0 /\ c_out = <<>> /\ c_pc = "idle"

ReadIdle ==
  /\ lines = <<>> /\ r_pos = 0 /\ r_cf = EmptyControlFile(<<>>, <<>>)
  /\ r_pc = "idle"

Init ==
  /\ file \in Seeds
  /\ control_file \in ControlFiles
  /\ n_bytes = 0
  /\ hasher = RollSum_default
  /\ our_appearances = EmptyMap
  /\ pc = "scan"
  /\ ChunkIdle
  /\ ReadIdle

Next == SearchInput \/ SearchUnderflow \/ SearchReturn

Spec == Init /\ [][Next]_vars

\* ------------------------------------------------------ claims on the search
\* The bytes a digest was taken of (Sha256 is collision-free).
Content(h) == h[2]

Max(S) == CHOOSE x \in S : \A y \in S : y <= x

\* The bytes occur in the seed at offset p.
Occurs(bytes, p) ==
  p + Len(bytes) <= Len(file) /\ Slice(file, p, p + Len(bytes)) = bytes

\* The checksum of a fresh RollSum fed the window of the seed that starts at p.
MarkAt(p) ==
  sum(FeedAll(RollSum_default, Slice(file, p, p + WINDOW_SIZE)))

\* The seed offsets at which the scan so far has met a candidate (len, h)
\* whose digest agreed: the window starting at p has been read, its checksum
\* is a key of chunks, and the digest of seed[p..min(seed_len, p + len)] is h.
VerifiedAt(h) ==
  {p \in 0..Len(file) :
     /\ p + WINDOW_SIZE <= n_bytes
     /\ MarkAt(p) \in DOMAIN control_file.chunks
     /\ \E k \in DOMAIN control_file.chunks[MarkAt(p)] :
          LET c == control_file.chunks[MarkAt(p)][k]
          IN /\ c[2] = h
             /\ Sha256(Slice(file, p, Min(Len(file), p + c[1]))) = h}

\* The chunks of the control file that are chunks of a target (the recorded
\* len is the length of the hashed bytes) and whose bytes occur in the seed.
LocatableChunks ==
  {h \in DOMAIN control_file.appearances :
     /\ Len(Content(h)) = control_file.appearances[h][1]
     /\ \E p \in 0..Len(file) : Occurs(Content(h), p)}

\* C1: completeness of search. When search has ended, it has returned a map,
\* and every target chunk of the control file whose bytes occur in the seed
\* is in the map, at an offset where the seed holds those bytes.
C1_Completeness ==
  pc \in {"done", "panic"} =>
    \A h \in LocatableChunks :
      /\ pc = "done"
      /\ h \in DOMAIN our_appearances
      /\ Occurs(Content(h), our_appearances[h])

\* Completeness of the searches that return: what C1 states of every search
\* holds of those that end with Ok.
CompletenessWhenReturned ==
  pc = "done" =>
    \A h \in LocatableChunks :
      /\ h \in DOMAIN our_appearances
      /\ Occurs(Content(h), our_appearances[h])

\* C2: search never verifies a candidate at an index i with
\* i + 1 < WINDOW_SIZE (our_start never underflows), and for a seed shorter
\* than WINDOW_SIZE it returns the empty map.
C2_NoUnderflow ==
  /\ pc # "panic"
  /\ (pc = "done" /\ Len(file) < WINDOW_SIZE) => our_appearances = EmptyMap

\* C3: no match on a short hash. For every entry hash -> p of the returned
\* map, with len the length the control file records for the hash,
\* p + len <= seed_len and hash = SHA256(seed[p..p+len]).
C3_NoShortMatch ==
  pc = "done" =>
    \A h \in DOMAIN our_appearances :
      LET len == control_file.appearances[h][1]
          p == our_appearances[h]
      IN /\ p + len <= Len(file)
         /\ h = Sha256(Slice(file, p, p + len))

\* C4: rolling-hash equivalence. Once WINDOW_SIZE bytes or more of the seed
\* have been fed, one at a time, to the scan's RollSum, its sum() is the
\* sum() of a fresh RollSum fed exactly the last WINDOW_SIZE bytes.
C4_RollingEquivalence ==
  n_bytes >= WINDOW_SIZE =>
    sum(hasher) =
      sum(FeedAll(RollSum_default, Slice(file, n_bytes - WINDOW_SIZE, n_bytes)))

\* The window has rolled: a nonzero byte has left it, and the sums agree.
C4_Witness ==
  /\ n_bytes > WINDOW_SIZE
  /\ file[n_bytes - WINDOW_SIZE] # 0
  /\ sum(hasher) =
       sum(FeedAll(RollSum_default, Slice(file, n_bytes - WINDOW_SIZE, n_bytes)))

\* C8: latest witness. At every point of the scan the map holds, for each
\* hash, the greatest seed offset at which a candidate with that hash has
\* been verified so far, and holds nothing for a hash never verified; so the
\* returned map holds the greatest such offset of the whole seed.
C8_LatestWitness ==
  /\ DOMAIN our_appearances \subseteq DOMAIN control_file.appearances
  /\ \A h \in DOMAIN control_file.appearances :
       IF VerifiedAt(h) = {}
       THEN h \notin DOMAIN our_appearances
       ELSE /\ h \in DOMAIN our_appearances
            /\ our_appearances[h] = Max(VerifiedAt(h))

\* A returned map with a chunk verified at two offsets or more, holding the
\* greatest.
C8_Witness ==
  /\ pc = "done"
  /\ \E h \in DOMAIN our_appearances :
       /\ Cardinality(VerifiedAt(h)) >= 2
       /\ our_appearances[h] = Max(VerifiedAt(h))

\* ========================================================== the chunkers
SearchIdle ==
  /\ file = <<>> /\ control_file = EmptyControlFile(0, Sha256(<<>>))
  /\ n_bytes = 0 /\ hasher = RollSum_default
  /\ our_appearances = EmptyMap /\ pc = "idle"

\* The values of a request: small ones, which may lie past the end of the
\* file, and the greatest usize.
Requests == 0..(MaxTarget + 1) \cup {USIZE_MAX}

\* chunk_specific(file, from, len) for a request (from, len), in a build
\* with or without overflow checks.
ChunkSpecific ==
  /\ c_pc = "idle"
  /\ \E from \in Requests, len \in Requests, checks \in BOOLEAN :
       LET r == chunk_specific(c_file, from, len, checks)
       IN /\ c_req' = <<"specific", from, len>>
          /\ c_pc' = IF r.panic THEN "panic" ELSE "done"
          /\ c_out' = IF r.panic THEN <<>> ELSE <<r.ap>>
  /\ UNCHANGED <<c_file, c_hasher, c_i, search_vars, read_vars>>

\* chunk_uniform(file, size) up to the iterator it returns: the ensure!, and
\* the info! whose argument 1 + (file.len() - 1) / size underflows for an
\* empty file. The argument is evaluated only when the log level is enabled,
\* and the underflow panics only in a build with overflow checks: for an
\* empty file both outcomes are possible.
ChunkUniformStart ==
  /\ c_pc = "idle"
  /\ \E size \in (WINDOW_SIZE - 1)..MaxSize :
       /\ c_req' = <<"uniform", size>>
       /\ IF size < WINDOW_SIZE
          THEN c_pc' = "error"
          ELSE \/ c_pc' = "uniform"
               \/ Len(c_file) = 0 /\ c_pc' = "panic"
  /\ UNCHANGED <<c_file, c_hasher, c_i, c_out, search_vars, read_vars>>

\* One call of the closure of chunk_uniform's filter_map.
ChunkUniformNext ==
  /\ c_pc = "uniform"
  /\ c_i < Len(c_file)
  /\ LET rs == input(c_hasher, c_file[c_i + 1])
     IN /\ c_hasher' = rs
        /\ c_out' = c_out \o uniform_item(c_file, c_req[2], rs, c_i)
  /\ c_i' = c_i + 1
  /\ UNCHANGED <<c_file, c_req, c_pc, search_vars, read_vars>>

\* The iterator is exhausted.
ChunkUniformEnd ==
  /\ c_pc = "uniform"
  /\ c_i = Len(c_file)
  /\ c_pc' = "done"
  /\ UNCHANGED <<c_file, c_req, c_hasher, c_i, c_out, search_vars, read_vars>>

InitChunk ==
  /\ c_file \in Targets
  /\ c_req = <<>>
  /\ c_hasher = RollSum_default
  /\ c_i = 0
  /\ c_out = <<>>
  /\ c_pc = "idle"
  /\ SearchIdle
  /\ ReadIdle

NextChunk ==
  ChunkSpecific \/ ChunkUniformStart \/ ChunkUniformNext \/ ChunkUniformEnd

SpecChunk == InitChunk /\ [][NextChunk]_vars

\* ---------------------------------------------------- claims on the chunkers
\* The descriptor is a chunk of the file f within its bounds.
InBounds(f, d) == d.from + d.len <= Len(f) /\ d.len >= WINDOW_SIZE

\* The descriptor's start-mark and hash are those of the file's bytes.
Describes(f, d) ==
  /\ d.from + WINDOW_SIZE <= Len(f)
  /\ d.start_mark =
       sum(FeedAll(RollSum_default, Slice(f, d.from, d.from + WINDOW_SIZE)))
  /\ d.from + d.len <= Len(f)
  /\ d.hash = Sha256(Slice(f, d.from, d.from + d.len))

SpecificEnded == c_req # <<>> /\ c_req[1] = "specific" /\ c_pc # "idle"

RequestFits ==
  /\ ~AddOverflows(c_req[2], WINDOW_SIZE)
  /\ UsizeLt(c_req[2] + WINDOW_SIZE, Len(c_file)) => ~AddOverflows(c_req[2], c_req[3])

BuildsAgree ==
  \A from \in Requests, len \in Requests :
    chunk_specific(c_file, from, len, TRUE) = chunk_specific(c_file, from, len, FALSE)

\* Outside the amended claim's cases chunk_specific panics.
PanicsOtherwise ==
  (SpecificEnded /\ ~(Len(c_file) >= WINDOW_SIZE /\ RequestFits)) => c_pc = "panic"

C10_UniformChunksValid ==
  (c_req # <<>> /\ c_req[1] = "uniform") =>
    \A k \in DOMAIN c_out :
      InBounds(c_file, c_out[k]) /\ Describes(c_file, c_out[k])

\* What holds of chunk_uniform's descriptors: the start-mark is that of the
\* window at from, and the hash is that of file[from..min(file_len, from+size)].
UniformChunksUpToEof ==
  (c_req # <<>> /\ c_req[1] = "uniform") =>
    \A k \in DOMAIN c_out :
      LET d == c_out[k]
      IN /\ d.len = c_req[2]
         /\ d.from + WINDOW_SIZE <= Len(c_file)
         /\ d.start_mark =
              sum(FeedAll(RollSum_default,
                          Slice(c_file, d.from, d.from + WINDOW_SIZE)))
         /\ d.hash = Sha256(Slice(c_file, d.from, Min(Len(c_file), d.from + d.len)))

\* ===================================================== ControlFile::read
\* The text of a control file. A character is a number: 0..15 is the hex
\* digit of that value ('0'..'9', 'a'..'f'), NoDigit is a character that is
\* no digit ('-', ':', 'g'). A field is a sequence of characters. A line is
\*   [kind |-> "comment"]                 a line that begins with '#'
\*   [kind |-> "blank"]                   an empty or all-whitespace line
\*   [kind |-> "sep"]                     the line ---
\*   [kind |-> "header", key, value]      the line "key: value"
\*   [kind |-> "chunk", fields]           whitespace-separated fields
NoDigit == 16

None == <<>>
Some(v) == <<v>>

Err == [kind |-> "err"]
Panic == [kind |-> "panic"]
Ok(v) == [kind |-> "ok", val |-> v]

RECURSIVE Digits(_, _)
Digits(field, base) ==
  IF field = <<>> THEN 0
  ELSE Digits(SubSeq(field, 1, Len(field) - 1), base) * base + field[Len(field)]

\* str::parse::<usize>
parse_usize(field) ==
  IF field # <<>> /\ \A k \in DOMAIN field : field[k] <= 9
  THEN Ok(Digits(field, 10)) ELSE Err

\* u64::from_str_radix(field, 16)
from_str_radix_16(field) ==
  IF field # <<>> /\ \A k \in DOMAIN field : field[k] <= 15
  THEN Ok(U64(Digits(field, 16))) ELSE Err

\* hex::decode
hex_decode(field) ==
  IF Len(field) % 2 = 0 /\ \A k \in DOMAIN field : field[k] <= 15
  THEN Ok([k \in 1..(Len(field) \div 2) |-> field[2 * k - 1] * 16 + field[2 * k]])
  ELSE Err

\* hex::decode(field)?.try_into().unwrap() into a Sha256Sum, [u8; 32]
decode_sha256(field) ==
  LET bytes == hex_decode(field)
  IN IF bytes.kind = "err" THEN Err
     ELSE IF Len(bytes.val) # HASH_LEN THEN Panic
     ELSE bytes

\* l.split_ascii_whitespace() of a line
fields_of(l) ==
  CASE l.kind = "chunk" -> l.fields
    [] l.kind = "header" ->
         <<<<NoDigit>>>> \o (IF l.value = <<>> THEN <<>> ELSE <<l.value>>)
    [] l.kind = "sep" -> <<<<NoDigit, NoDigit, NoDigit>>>>
    [] OTHER -> <<>>

\* Appearance::from_str
from_str(l) ==
  LET fields == fields_of(l)
      from == IF Len(fields) < 1 THEN Err ELSE parse_usize(fields[1])
      len == IF Len(fields) < 2 THEN Err ELSE parse_usize(fields[2])
      start_mark == IF Len(fields) < 3 THEN Err ELSE from_str_radix_16(fields[3])
      hash == IF Len(fields) < 4 THEN Err ELSE decode_sha256(fields[4])
  IN IF from.kind # "ok" THEN from
     ELSE IF len.kind # "ok" THEN len
     ELSE IF start_mark.kind # "ok" THEN start_mark
     ELSE IF hash.kind # "ok" THEN hash
     ELSE Ok(Appearance(from.val, len.val, start_mark.val, hash.val))

\* The next line of the iterator .filter(|l| !l.starts_with('#')) after the
\* pos lines consumed, as an index into ls; 0 when the iterator is exhausted.
next_line(ls, pos) ==
  LET rest == {k \in (pos + 1)..Len(ls) : ls[k].kind # "comment"}
  IN IF rest = {} THEN 0 ELSE CHOOSE k \in rest : \A j \in rest : k <= j

\* One iteration of the loop over the header lines, from the state
\* [pos, cf, pc] of read.
header_step(ls, st) ==
  LET k == next_line(ls, st.pos)
      l == ls[k]
  IN IF k = 0 THEN [st EXCEPT !.pos = Len(ls), !.pc = "chunks"]
     ELSE IF l.kind = "sep" THEN [st EXCEPT !.pos = k, !.pc = "chunks"]
     ELSE IF l.kind = "header" /\ l.key = "Length"
     THEN LET v == parse_usize(l.value)
          IN IF v.kind = "ok"
             THEN [st EXCEPT !.pos = k, !.cf.total_len = Some(v.val)]
             ELSE [st EXCEPT !.pos = k, !.pc = v.kind]
     ELSE IF l.kind = "header" /\ l.key = "SHA-256"
     THEN LET v == decode_sha256(l.value)
          IN IF v.kind = "ok"
             THEN [st EXCEPT !.pos = k, !.cf.total_sha256 = Some(v.val)]
             ELSE [st EXCEPT !.pos = k, !.pc = v.kind]
     ELSE [st EXCEPT !.pos = k]

\* One iteration of the loop over the chunk lines.
chunk_step(ls, st) ==
  LET k == next_line(ls, st.pos)
      ap == from_str(ls[k])
  IN IF ap.kind = "ok"
     THEN [st EXCEPT !.pos = k, !.cf = index_appearance(st.cf, ap.val)]
     ELSE [st EXCEPT !.pos = k, !.pc = ap.kind]

\* The end of read: Ok(ControlFile { .. }) with the two ok_or_else.
finish(st) ==
  IF st.cf.total_len = None \/ st.cf.total_sha256 = None
  THEN [st EXCEPT !.pc = "err"]
  ELSE [st EXCEPT !.pc = "ok"]

ReadStart == [pos |-> 0, cf |-> EmptyControlFile(None, None), pc |-> "header"]

ReadState == [pos |-> r_pos, cf |-> r_cf, pc |-> r_pc]

SetReadState(st) == r_pos' = st.pos /\ r_cf' = st.cf /\ r_pc' = st.pc

ReadHeaderLine ==
  /\ r_pc = "header"
  /\ SetReadState(header_step(lines, ReadState))
  /\ UNCHANGED <<lines, search_vars, chunk_vars>>

ReadChunkLine ==
  /\ r_pc = "chunks"
  /\ next_line(lines, r_pos) # 0
  /\ SetReadState(chunk_step(lines, ReadState))
  /\ UNCHANGED <<lines, search_vars, chunk_vars>>

ReadFinish ==
  /\ r_pc = "chunks"
  /\ next_line(lines, r_pos) = 0
  /\ SetReadState(finish(ReadState))
  /\ UNCHANGED <<lines, search_vars, chunk_vars>>

\* ------------------------------------------------------ the lines of a file
HexRun(d, n) == [k \in 1..n |-> d]

HashA == HexRun(10, 2 * HASH_LEN)
HashB == HexRun(11, 2 * HASH_LEN)

Comment == [kind |-> "comment"]
Blank == [kind |-> "blank"]
Sep == [kind |-> "sep"]
Header(key, value) == [kind |-> "header", key |-> key, value |-> value]
Chunk(fields) == [kind |-> "chunk", fields |-> fields]

\* Chunk lines that parse: two with the hash A under different lengths and
\* start-marks, and one with the start-mark of the first and the hash B.
GoodChunkLines ==
  {Chunk(<<<<0>>, <<2>>, <<10>>, HashA>>),
   Chunk(<<<<0>>, <<3>>, <<10>>, HashB>>),
   Chunk(<<<<3>>, <<3>>, <<11>>, HashA>>)}

\* Chunk lines that do not: three fields, a from or a len that is not
\* decimal, a start-mark or a hash that is not hex, a hash of an odd number of
\* digits, a hash of one byte.
BadChunkLines ==
  {Chunk(<<<<0>>, <<2>>, <<10>>>>),
   Chunk(<<<<10>>, <<2>>, <<10>>, HashA>>),
   Chunk(<<<<0>>, <<10>>, <<10>>, HashA>>),
   Chunk(<<<<0>>, <<2>>, <<NoDigit>>, HashA>>),
   Chunk(<<<<0>>, <<2>>, <<10>>, HexRun(NoDigit, 2 * HASH_LEN)>>),
   Chunk(<<<<0>>, <<2>>, <<10>>, HexRun(10, 3)>>),
   Chunk(<<<<0>>, <<2>>, <<10>>, HexRun(10, 2)>>)}

ChunkSectionLines == GoodChunkLines \cup BadChunkLines \cup {Comment, Blank}

\* Header sections: some comment, blank and unknown-key lines or none, a
\* Length line that parses, one that does not or none, a SHA-256 line that
\* parses, one of one byte, one that is not hex or none, and the separator
\* or none.
HeaderSections ==
  {pre \o length \o sha \o sep :
     pre \in {<<>>, <<Comment, Blank, Header("Other", <<1>>)>>},
     length \in {<<>>, <<Header("Length", <<5>>)>>, <<Header("Length", <<10>>)>>},
     sha \in {<<>>, <<Header("SHA-256", HashA)>>,
              <<Header("SHA-256", HexRun(10, 2))>>,
              <<Header("SHA-256", HexRun(NoDigit, 2))>>},
     sep \in {<<>>, <<Sep>>}}

InitRead ==
  /\ lines \in {h \o b : h \in HeaderSections,
                         b \in SeqsOf(ChunkSectionLines, 0, MaxLines)}
  /\ r_pos = 0
  /\ r_cf = EmptyControlFile(None, None)
  /\ r_pc = "header"
  /\ SearchIdle
  /\ ChunkIdle

NextRead == ReadHeaderLine \/ ReadChunkLine \/ ReadFinish

SpecRead == InitRead /\ [][NextRead]_vars

\* -------------------------------------------------------- claims on read
\* read as a function of the lines: the steps above, run to the end.
RECURSIVE read_run(_, _)
read_run(ls, st) ==
  IF st.pc = "header" THEN read_run(ls, header_step(ls, st))
  ELSE IF st.pc = "chunks"
  THEN IF next_line(ls, st.pos) # 0
       THEN read_run(ls, chunk_step(ls, st))
       ELSE finish(st)
  ELSE st

ReadEnded == r_pc \in {"ok", "err", "panic"}

\* The index of the separator that ends the header section: the first line
\* --- that is no comment; Len(ls) + 1 when there is none.
SepIndex(ls) ==
  LET seps == {k \in DOMAIN ls : ls[k].kind = "sep"}
  IN IF seps = {} THEN Len(ls) + 1 ELSE CHOOSE k \in seps : \A j \in seps : k <= j

HeaderPart(ls) == {k \in DOMAIN ls : k < SepIndex(ls) /\ ls[k].kind # "comment"}
ChunkPart(ls) == {k \in DOMAIN ls : k > SepIndex(ls) /\ ls[k].kind # "comment"}

\* The chunk lines read has parsed so far.
ParsedChunkLines ==
  {k \in ChunkPart(lines) : k <= r_pos /\ from_str(lines[k]).kind = "ok"}

ParsedHashes == {from_str(lines[k]).val.hash : k \in ParsedChunkLines}

\* The places <<start-mark, position>> of the entries of the index chunks.
ChunkEntries(cf) ==
  UNION {{<<m, k>> : k \in DOMAIN cf.chunks[m]} : m \in DOMAIN cf.chunks}

\* C6: the index invariant of read. Every entry (len, hash) of a bucket of
\* chunks has an entry appearances[hash] = (len, offs) with that len and an
\* offset or more; every hash of a parsed line is in exactly one place of
\* chunks; n_chunks is the number of distinct hashes of the parsed lines and
\* n_appearances the number of parsed lines.
C6_IndexInvariant ==
  /\ \A e \in ChunkEntries(r_cf) :
       LET c == r_cf.chunks[e[1]][e[2]]
       IN /\ c[2] \in DOMAIN r_cf.appearances
          /\ r_cf.appearances[c[2]][1] = c[1]
          /\ Len(r_cf.appearances[c[2]][2]) >= 1
  /\ \A h \in ParsedHashes :
       Cardinality({e \in ChunkEntries(r_cf) : r_cf.chunks[e[1]][e[2]][2] = h}) = 1
  /\ n_chunks(r_cf) = Cardinality(ParsedHashes)
  /\ n_appearances(r_cf) = Cardinality(ParsedChunkLines)

\* A control file has been read in which two lines carry one hash.
C6_Witness ==
  /\ r_pc = "ok"
  /\ Cardinality(ParsedChunkLines) = 2
  /\ Cardinality(ParsedHashes) = 1
  /\ n_chunks(r_cf) = 1
  /\ n_appearances(r_cf) = 2

IsDecimal(field) == field # <<>> /\ \A k \in DOMAIN field : field[k] <= 9
IsHex(field) == field # <<>> /\ \A k \in DOMAIN field : field[k] <= 15
IsSha256Hex(field) == IsHex(field) /\ Len(field) = 2 * HASH_LEN

\* The control file is malformed: a required header key is missing, the
\* SHA-256 header is no hex of 32 bytes, or a chunk line has fewer than four
\* fields or a field that does not parse.
Malformed(ls) ==
  \/ \E key \in {"Length", "SHA-256"} :
       ~\E k \in HeaderPart(ls) : ls[k].kind = "header" /\ ls[k].key = key
  \/ \E k \in HeaderPart(ls) :
       ls[k].kind = "header" /\ ls[k].key = "SHA-256" /\ ~IsSha256Hex(ls[k].value)
  \/ \E k \in ChunkPart(ls) :
       /\ ls[k].kind = "chunk"
       /\ \/ Len(ls[k].fields) < 4
          \/ ~IsDecimal(ls[k].fields[1])
          \/ ~IsDecimal(ls[k].fields[2])
          \/ ~IsHex(ls[k].fields[3])
          \/ ~IsSha256Hex(ls[k].fields[4])

\* C7: a malformed control file is reported as an error, never as a panic:
\* read returns an error value and no ControlFile.
C7_MalformedIsError == (ReadEnded /\ Malformed(lines)) => r_pc = "err"

\* What holds of a malformed control file: read returns no ControlFile.
MalformedIsNeverOk == (ReadEnded /\ Malformed(lines)) => r_pc # "ok"

Without(ls, kinds) == SelectSeq(ls, LAMBDA l : l.kind \notin kinds)

\* C9: comment lines and blank lines, in the header section or in the chunk
\* section, do not change the result of read: a control file that reads
\* without them reads with them, to the same ControlFile.
C9_CommentsAndBlanksIgnored ==
  LET bare == read_run(Without(lines, {"comment", "blank"}), ReadStart)
  IN (ReadEnded /\ bare.pc = "ok") => (r_pc = "ok" /\ r_cf = bare.cf)

\* What holds: comment lines anywhere, and blank lines of the header
\* section, do not change the result of read.
CommentsIgnored ==
  LET bare == read_run(Without(lines, {"comment"}), ReadStart)
  IN ReadEnded => (r_pc = bare.pc /\ (r_pc = "ok" => r_cf = bare.cf))

BlankHeaderLinesIgnored ==
  LET kept == {k \in DOMAIN lines : lines[k].kind # "blank" \/ k > SepIndex(lines)}
      bare == read_run([k \in 1..Cardinality(kept) |->
                          lines[CHOOSE j \in kept :
                                  Cardinality({i \in kept : i <= j}) = k]],
                       ReadStart)
  IN ReadEnded => (r_pc = bare.pc /\ (r_pc = "ok" => r_cf = bare.cf))

====
